---- MODULE Spec2Model ----
(***************************************************************************)
(* Directory archiving of csothen/kognit (src/main.go): the ZIP and        *)
(* tar+gzip encoders and decoders of DirectoryCompressionAlgorithm, over   *)
(* a small filesystem.  Strings are sequences of one-character strings,    *)
(* so that path/filepath's Clean, Join and Dir and strings.HasPrefix are   *)
(* computed character by character as the library computes them.           *)
(***************************************************************************)
EXTENDS Integers, Sequences, FiniteSets, TLC

\* ------------------------------------------------------------------ bounds

\* Longest crafted archive offered to Decode (number of entries).
MaxEntries == 2

\* ----------------------------------------------------------------- strings

Sep == "/"

\* strings.HasPrefix(s, prefix)
HasPrefix(s, prefix) ==
    /\ Len(prefix) <= Len(s)
    /\ SubSeq(s, 1, Len(prefix)) = prefix

\* The index of the last separator of s, 0 when it has none.
LastSep(s) ==
    IF \E k \in 1..Len(s) : s[k] = Sep
    THEN CHOOSE k \in 1..Len(s) : s[k] = Sep /\ \A j \in (k+1)..Len(s) : s[j] # Sep
    ELSE 0

\* The separator-delimited elements of s, empty ones included.
RECURSIVE Split(_)
Split(s) ==
    IF \A k \in 1..Len(s) : s[k] # Sep
    THEN <<s>>
    ELSE LET k == CHOOSE k \in 1..Len(s) : s[k] = Sep /\ \A j \in 1..(k-1) : s[j] # Sep
         IN  <<SubSeq(s, 1, k-1)>> \o Split(SubSeq(s, k+1, Len(s)))

RECURSIVE JoinSep(_)
JoinSep(elems) ==
    IF elems = <<>> THEN <<>>
    ELSE IF Len(elems) = 1 THEN elems[1]
    ELSE elems[1] \o <<Sep>> \o JoinSep(Tail(elems))

IsAbs(s) == Len(s) > 0 /\ s[1] = Sep

\* The element loop of filepath.Clean: "." and empty elements are dropped, ".."
\* removes the element before it, is dropped at the root, and is kept at the
\* start of a relative path.
RECURSIVE CleanElems(_, _, _)
CleanElems(elems, out, rooted) ==
    IF elems = <<>> THEN out
    ELSE LET c == Head(elems)
             rest == Tail(elems)
         IN  IF c = <<>> \/ c = <<".">>
             THEN CleanElems(rest, out, rooted)
             ELSE IF c = <<".", ".">>
             THEN IF out # <<>> /\ out[Len(out)] # <<".", ".">>
                  THEN CleanElems(rest, SubSeq(out, 1, Len(out) - 1), rooted)
                  ELSE IF rooted
                  THEN CleanElems(rest, out, rooted)
                  ELSE CleanElems(rest, Append(out, c), rooted)
             ELSE CleanElems(rest, Append(out, c), rooted)

\* filepath.Clean(path)
Clean(s) ==
    IF s = <<>> THEN <<".">>
    ELSE LET body == JoinSep(CleanElems(Split(s), <<>>, IsAbs(s)))
         IN  IF IsAbs(s) THEN <<Sep>> \o body
             ELSE IF body = <<>> THEN <<".">> ELSE body

\* filepath.Join(a, b)
Join(a, b) ==
    IF a = <<>> /\ b = <<>> THEN <<>>
    ELSE IF a = <<>> THEN Clean(b)
    ELSE Clean(a \o <<Sep>> \o b)

\* filepath.Dir(path)
Dir(s) == Clean(SubSeq(s, 1, LastSep(s)))

\* The last element of a cleaned path.
Base(s) == SubSeq(s, LastSep(s) + 1, Len(s))


\* The byte order of the characters used in file names (readDirNames sorts).
Alphabet == <<".", "/", "a", "d", "e", "f", "g", "i", "l", "m", "p", "q", "r",
              "s", "t", "w", "x", "z">>

CharRank(c) == CHOOSE k \in 1..Len(Alphabet) : Alphabet[k] = c

\* a < b as Go compares strings.
RECURSIVE StrLess(_, _)
StrLess(a, b) ==
    IF b = <<>> THEN FALSE
    ELSE IF a = <<>> THEN TRUE
    ELSE IF a[1] # b[1] THEN CharRank(a[1]) < CharRank(b[1])
    ELSE StrLess(Tail(a), Tail(b))

\* sort.Strings over a set of names.
RECURSIVE SortStrings(_)
SortStrings(S) ==
    IF S = {} THEN <<>>
    ELSE LET m == CHOOSE x \in S : \A y \in S \ {x} : StrLess(x, y)
         IN  <<m>> \o SortStrings(S \ {m})

\* -------------------------------------------------------------- filesystem

\* The process's working directory: relative names resolve against it.
Cwd == <<"/", "w">>

\* The node a path names, as the kernel resolves it (no symbolic links).
Abs(p) == IF IsAbs(p) THEN Clean(p) ELSE Clean(Cwd \o <<Sep>> \o p)

DirNode == [kind |-> "dir", data |-> ""]
FileNode(d) == [kind |-> "file", data |-> d]

Put(fsys, p, node) == [q \in DOMAIN fsys \cup {p} |-> IF q = p THEN node ELSE fsys[q]]

IsDirAt(fsys, p) == p \in DOMAIN fsys /\ fsys[p].kind = "dir"

\* os.MkdirAll(path): nothing to do when the path exists (an error, dropped by
\* every caller, when it is a file); otherwise the parent is made first and the
\* directory is created under it.
RECURSIVE MkdirAll(_, _)
MkdirAll(fsys, p) ==
    IF p \in DOMAIN fsys THEN fsys
    ELSE LET up == MkdirAll(fsys, Dir(p))
         IN  IF IsDirAt(up, Dir(p)) THEN Put(up, p, DirNode) ELSE up

\* os.Mkdir(path) succeeds when the path is free and its parent is a directory.
CanMkdir(fsys, p) == p \notin DOMAIN fsys /\ IsDirAt(fsys, Dir(p))

\* os.Create / os.OpenFile(O_WRONLY|O_CREATE|O_TRUNC) succeeds when the parent is
\* a directory and the path is not itself a directory.
CanCreate(fsys, p) == IsDirAt(fsys, Dir(p)) /\ ~IsDirAt(fsys, p)

\* readDirNames(dir): the sorted names of the directory's children.
ReadDirNames(fsys, p) ==
    SortStrings({Base(q) : q \in {r \in DOMAIN fsys : r # p /\ Dir(r) = p}})

\* filepath.Walk: the root first (as given), then each child, by name, under
\* filepath.Join(path, name).
RECURSIVE Walk(_, _)
RECURSIVE WalkNames(_, _, _)
Walk(fsys, path) ==
    IF fsys[Abs(path)].kind = "dir"
    THEN <<path>> \o WalkNames(fsys, path, ReadDirNames(fsys, Abs(path)))
    ELSE <<path>>
WalkNames(fsys, path, names) ==
    IF names = <<>> THEN <<>>
    ELSE Walk(fsys, Join(path, Head(names))) \o WalkNames(fsys, path, Tail(names))

\* The test of the walk callback: which entries are appended to the list.
Collected(node) == ~(node.kind = "file")

\* allDirFiles(src): Lstat's error of a missing root comes back through the
\* callback; otherwise the walked paths passing the callback's test.
allDirFiles(fsys, src) ==
    IF Abs(src) \notin DOMAIN fsys
    THEN [files |-> <<>>, err |-> "no such file or directory"]
    ELSE [files |-> SelectSeq(Walk(fsys, src), LAMBDA p : Collected(fsys[Abs(p)])),
          err |-> "nil"]


\* ------------------------------------------------------------------ archives

\* The two values of DirectoryCompressionAlgorithm.
Algorithms == {"ZIP", "TAR"}

\* The suffix Encode appends to the source path.
Suffix(a) == IF a = "ZIP" THEN <<".", "z", "i", "p">>
             ELSE <<".", "t", "a", "r", ".", "g", "z">>

\* One archive entry: the header's name and kind (ZIP: the directory bit of the
\* mode; tar: the type flag, "other" being any flag but directory and regular),
\* the payload, and whether the stored payload is cut short or corrupt, so that
\* reading it to the end fails.
Entry(name, kind, data, short) ==
    [name |-> name, kind |-> kind, data |-> data, short |-> short]

NoError == "nil"

\* addToZip(w, filename): the file is opened, its header is written under the
\* walked path, and its bytes are copied; reading a directory fails
\* (EISDIR) after the header is out.
addToZip(fsys, filename) ==
    IF Abs(filename) \notin DOMAIN fsys
    THEN [entries |-> <<>>, err |-> "no such file or directory"]
    ELSE LET node == fsys[Abs(filename)]
         IN  IF node.kind = "dir"
             THEN [entries |-> <<Entry(filename, "dir", "", FALSE)>>,
                   err |-> "is a directory"]
             ELSE [entries |-> <<Entry(filename, "reg", node.data, FALSE)>>,
                   err |-> NoError]

\* addToTar(w, filename): as addToZip, with a tar header.
addToTar(fsys, filename) ==
    IF Abs(filename) \notin DOMAIN fsys
    THEN [entries |-> <<>>, err |-> "no such file or directory"]
    ELSE LET node == fsys[Abs(filename)]
         IN  IF node.kind = "dir"
             THEN [entries |-> <<Entry(filename, "dir", "", FALSE)>>,
                   err |-> "is a directory"]
             ELSE [entries |-> <<Entry(filename, "reg", node.data, FALSE)>>,
                   err |-> NoError]

\* What encodeZipArchive returns when allDirFiles failed with err.
ZipWalkError(err) == err

\* What encodeTarArchive returns when allDirFiles failed with err.
TarWalkError(err) == NoError

\* The outcome of extracting one entry: the filesystem after it, its error, the
\* paths it created or wrote, the handles it closed (in order) and those it left
\* open.
Outcome(fsys, err, touched, closed, leak) ==
    [fs |-> fsys, err |-> err, touched |-> touched, closed |-> closed, leak |-> leak]

\* extractFromZip(f, dest)
extractFromZip(fsys, e, dest) ==
    LET path == Join(dest, e.name)
    IN  IF ~HasPrefix(path, Clean(dest) \o <<Sep>>)
        THEN Outcome(fsys, "illegal file path", {}, <<"file">>, {})
        ELSE IF e.kind = "dir"
        THEN LET m == MkdirAll(fsys, Abs(path))
             IN  Outcome(m, NoError, DOMAIN m \ DOMAIN fsys, <<"file">>, {})
        ELSE LET m == MkdirAll(fsys, Abs(Dir(path)))
                 made == DOMAIN m \ DOMAIN fsys
             IN  IF ~CanCreate(m, Abs(path))
                 THEN Outcome(m, "open failed", made, <<"file">>, {})
                 ELSE IF e.short
                 THEN Outcome(Put(m, Abs(path), FileNode("")), "unexpected EOF",
                              made \cup {Abs(path)}, <<"f", "file">>, {})
                 ELSE Outcome(Put(m, Abs(path), FileNode(e.data)), NoError,
                              made \cup {Abs(path)}, <<"f", "file">>, {})

\* A default case that drops the entry and lets the loop go on.
UnknownHeaderSkipped == NoError
\* The error of extractFromTar's default case.
UnknownHeader == "Unknown header type"

\* extractFromTar(r, header, dest)
extractFromTar(fsys, e, dest) ==
    LET p == Abs(e.name)
    IN  IF e.kind = "dir"
        THEN IF CanMkdir(fsys, p)
             THEN Outcome(Put(fsys, p, DirNode), NoError, {p}, <<>>, {})
             ELSE Outcome(fsys, "mkdir failed", {}, <<>>, {})
        ELSE IF e.kind = "reg"
        THEN IF ~CanCreate(fsys, p)
             THEN Outcome(fsys, "open failed", {}, <<>>, {})
             ELSE IF e.short
             THEN Outcome(Put(fsys, p, FileNode("")), "unexpected EOF", {p},
                          <<>>, {"outFile"})
             ELSE Outcome(Put(fsys, p, FileNode(e.data)), NoError, {p},
                          <<"outFile">>, {})
        ELSE Outcome(fsys, UnknownHeader, {}, <<>>, {})


\* --------------------------------------------------------------------- state

VARIABLES
    fs,         \* the directories and regular files: absolute path -> node
    arch,       \* the archive files: absolute path -> [fmt, entries]
    pc,         \* "idle", or the loop the running call is in: "encode", "decode"
    call,       \* the running (or last) call: [op, alg, src, dest, walkErr]
    files,      \* Encode: the list allDirFiles returned
    idx,        \* the index of the next list element or archive entry
    ret,        \* what the last call returned
    open,       \* the handles that are open
    defers,     \* the deferred Close calls of the running function, oldest first
    closeLog,   \* the handles the call closed, in order
    writes,     \* Decode: what it created or wrote: [idx, name, path]
    processed,  \* Decode: the indexes of the entries handed to extractFrom*
    snap,       \* the filesystem as the last Encode found it
    hist        \* the calls that returned: [op, alg, src, ret, walkErr]

vars == <<fs, arch, pc, call, files, idx, ret, open, defers, closeLog, writes,
          processed, snap, hist>>

\* ------------------------------------------------------------------- inputs

P_root == <<"/">>
P_w    == <<"/", "w">>
P_s    == <<"/", "w", "/", "s">>
P_d    == <<"/", "w", "/", "d">>
P_de   == <<"/", "w", "/", "d", "/", "e">>
P_dea  == <<"/", "w", "/", "d", "/", "e", "/", "a">>
P_df   == <<"/", "w", "/", "d", "/", "f">>
P_dz   == <<"/", "w", "/", "d", "/", "z">>

\* The directories every run starts with: /, the working directory /w and /w/s.
BaseFs == [q \in {P_root, P_w, P_s} |-> DirNode]

\* The trees found at /w/d: an empty root; one regular file; an empty
\* subdirectory and a zero-byte file; a file in a subdirectory beside a file.
Trees ==
    { Put(BaseFs, P_d, DirNode),
      Put(Put(BaseFs, P_d, DirNode), P_df, FileNode("A")),
      Put(Put(Put(BaseFs, P_d, DirNode), P_de, DirNode), P_dz, FileNode("")),
      Put(Put(Put(Put(BaseFs, P_d, DirNode), P_de, DirNode), P_dea, FileNode("B")),
          P_df, FileNode("A")) }

\* The paths Encode is called with: the tree by a relative and by an absolute
\* path, a regular file, and a path that does not exist.
EncodeSources == { <<"d">>, P_d, <<"d", "/", "f">>, <<"m">> }

\* Where a crafted archive lies: in the working directory (destination "."), in
\* a subdirectory (destination "s"), at the filesystem root (destination "/").
CraftedPaths == { <<"x">>, <<"s", "/", "x">>, <<"/", "x">> }

\* The entries of crafted archives: a file, a directory, a file in a
\* directory, a name with a parent-directory segment, an absolute name, an
\* entry that is neither file nor directory, a file whose payload is cut short.
EntryPool ==
    { Entry(<<"a">>, "reg", "A", FALSE),
      Entry(<<"e">>, "dir", "", FALSE),
      Entry(<<"e", "/", "a">>, "reg", "B", FALSE),
      Entry(<<".", ".", "/", "x">>, "reg", "A", FALSE),
      Entry(<<"/", "q">>, "reg", "A", FALSE),
      Entry(<<"l">>, "other", "", FALSE),
      Entry(<<"a">>, "reg", "A", TRUE) }

EntrySeqs == UNION { [1..n -> EntryPool] : n \in 0..MaxEntries }

NoArchives == [q \in {} |-> [fmt |-> "ZIP", entries |-> <<>>]]

NoCall == [op |-> "none", alg |-> "ZIP", src |-> <<>>, dest |-> <<>>, walkErr |-> FALSE]

\* The paths Decode is called with: the crafted archive, every archive an
\* Encode may have written, and so also paths where no archive lies.
DecodeSources ==
    CraftedPaths \cup { s \o Suffix(a) : s \in EncodeSources, a \in Algorithms }

\* The archive paths tried where no archive lies.
MissingArchives == { <<"m">> \o Suffix(a) : a \in Algorithms }

\* Either a tree to archive and no archive yet, or a crafted archive (written
\* by some other producer) and no tree.
Init ==
    /\ \/ /\ fs \in Trees
          /\ arch = NoArchives
       \/ /\ fs = BaseFs
          /\ \E q \in CraftedPaths, a \in Algorithms, es \in EntrySeqs :
                arch = [r \in {Abs(q)} |-> [fmt |-> a, entries |-> es]]
    /\ pc = "idle"
    /\ call = NoCall
    /\ files = <<>>
    /\ idx = 1
    /\ ret = NoError
    /\ open = {}
    /\ defers = <<>>
    /\ closeLog = <<>>
    /\ writes = {}
    /\ processed = {}
    /\ snap = fs
    /\ hist = <<>>

\* ------------------------------------------------------------------ actions

Reverse(q) == [k \in 1..Len(q) |-> q[Len(q) + 1 - k]]
Range(q) == { q[k] : k \in 1..Len(q) }

Returned(c, r) == [op |-> c.op, alg |-> c.alg, src |-> c.src, ret |-> r,
                   walkErr |-> c.walkErr]

\* A behaviour is one session: at most one Encode, then at most one Decode (of
\* the archive just written, of a crafted one, or of none that exists).
CanEncode == pc = "idle" /\ hist = <<>>
CanDecode == pc = "idle" /\ \A k \in 1..Len(hist) : hist[k].op = "Encode"

\* Encode(src) when allDirFiles fails: encodeZipArchive / encodeTarArchive
\* return before anything is created.
EncodeWalkFails(a, src) ==
    LET w == allDirFiles(fs, src)
        c == [op |-> "Encode", alg |-> a, src |-> src, dest |-> src \o Suffix(a),
              walkErr |-> TRUE]
        r == IF a = "ZIP" THEN ZipWalkError(w.err) ELSE TarWalkError(w.err)
    IN  /\ CanEncode
        /\ w.err # NoError
        /\ call' = c
        /\ files' = w.files
        /\ ret' = r
        /\ hist' = Append(hist, Returned(c, r))
        /\ snap' = fs
        /\ closeLog' = <<>>
        /\ writes' = {}
        /\ processed' = {}
        /\ idx' = 1
        /\ UNCHANGED <<fs, arch, pc, open, defers>>

\* Encode(src) up to the loop over the list: the walk, os.Create(dest), and the
\* writers layered on the archive file, each with its deferred Close.
EncodeBegin(a, src) ==
    LET w == allDirFiles(fs, src)
        dest == src \o Suffix(a)
        layers == IF a = "ZIP" THEN <<"f", "zipWriter">>
                  ELSE <<"tarFile", "gzWriter", "tarWriter">>
    IN  /\ CanEncode
        /\ w.err = NoError
        /\ CanCreate(fs, Abs(dest))
        /\ call' = [op |-> "Encode", alg |-> a, src |-> src, dest |-> dest,
                    walkErr |-> FALSE]
        /\ files' = w.files
        /\ snap' = fs
        /\ arch' = [q \in DOMAIN arch \cup {Abs(dest)} |->
                      IF q = Abs(dest) THEN [fmt |-> a, entries |-> <<>>] ELSE arch[q]]
        /\ open' = open \cup Range(layers)
        /\ defers' = layers
        /\ closeLog' = <<>>
        /\ writes' = {}
        /\ processed' = {}
        /\ idx' = 1
        /\ pc' = "encode"
        /\ UNCHANGED <<fs, ret, hist>>

\* One turn of the encoders' loop: addToZip / addToTar on files[idx]; an error
\* returns it, after the deferred Closes.
AddEntry ==
    /\ pc = "encode"
    /\ idx <= Len(files)
    /\ LET r == IF call.alg = "ZIP" THEN addToZip(fs, files[idx])
                ELSE addToTar(fs, files[idx])
           at == Abs(call.dest)
       IN  /\ arch' = [arch EXCEPT ![at].entries = @ \o r.entries]
           /\ IF r.err # NoError
              THEN /\ ret' = r.err
                   /\ hist' = Append(hist, Returned(call, r.err))
                   /\ closeLog' = closeLog \o <<"file">> \o Reverse(defers)
                   /\ open' = open \ Range(defers)
                   /\ defers' = <<>>
                   /\ pc' = "idle"
                   /\ idx' = idx
              ELSE /\ closeLog' = closeLog \o <<"file">>
                   /\ idx' = idx + 1
                   /\ UNCHANGED <<ret, hist, open, defers, pc>>
    /\ UNCHANGED <<fs, call, files, writes, processed, snap>>

\* The encoders' loop is over: nil, after the deferred Closes.
EncodeEnd ==
    /\ pc = "encode"
    /\ idx > Len(files)
    /\ ret' = NoError
    /\ hist' = Append(hist, Returned(call, NoError))
    /\ closeLog' = closeLog \o Reverse(defers)
    /\ open' = open \ Range(defers)
    /\ defers' = <<>>
    /\ pc' = "idle"
    /\ UNCHANGED <<fs, arch, call, files, idx, writes, processed, snap>>

\* Decode(src) when the archive cannot be opened as the format asked for:
\* zip.OpenReader fails, or os.Open or gzip.NewReader does (the opened stream
\* is closed by its deferred Close).
DecodeOpenFails(a, src) ==
    LET c == [op |-> "Decode", alg |-> a, src |-> src, dest |-> Dir(src),
              walkErr |-> FALSE]
        r == IF Abs(src) \in DOMAIN arch THEN "invalid format"
             ELSE "no such file or directory"
    IN  /\ CanDecode
        /\ src \in MissingArchives \/ Abs(src) \in DOMAIN arch
        /\ ~(Abs(src) \in DOMAIN arch /\ arch[Abs(src)].fmt = a)
        /\ call' = c
        /\ ret' = r
        /\ hist' = Append(hist, Returned(c, r))
        /\ closeLog' = IF a = "TAR" /\ Abs(src) \in DOMAIN arch
                       THEN <<"stream">> ELSE <<>>
        /\ writes' = {}
        /\ processed' = {}
        /\ idx' = 1
        /\ UNCHANGED <<fs, arch, pc, files, open, defers, snap>>

\* Decode(src) up to the loop over the entries: the readers are opened, each
\* with its deferred Close; decodeZipArchive makes the destination directory.
DecodeBegin(a, src) ==
    LET dest == Dir(src)
        layers == IF a = "ZIP" THEN <<"r">> ELSE <<"stream", "gzipReader">>
    IN  /\ CanDecode
        /\ Abs(src) \in DOMAIN arch
        /\ arch[Abs(src)].fmt = a
        /\ call' = [op |-> "Decode", alg |-> a, src |-> src, dest |-> dest,
                    walkErr |-> FALSE]
        /\ fs' = IF a = "ZIP" THEN MkdirAll(fs, Abs(dest)) ELSE fs
        /\ open' = open \cup Range(layers)
        /\ defers' = layers
        /\ closeLog' = <<>>
        /\ writes' = {}
        /\ processed' = {}
        /\ idx' = 1
        /\ pc' = "decode"
        /\ UNCHANGED <<arch, files, ret, snap, hist>>

\* One turn of the decoders' loop: extractFromZip / extractFromTar on the next
\* entry; an error returns it, after the deferred Closes.
Extract ==
    /\ pc = "decode"
    /\ idx <= Len(arch[Abs(call.src)].entries)
    /\ LET e == arch[Abs(call.src)].entries[idx]
           r == IF call.alg = "ZIP" THEN extractFromZip(fs, e, call.dest)
                ELSE extractFromTar(fs, e, call.dest)
       IN  /\ fs' = r.fs
           /\ processed' = processed \cup {idx}
           /\ writes' = writes \cup
                 { [idx |-> idx, name |-> e.name, path |-> q] : q \in r.touched }
           /\ IF r.err # NoError
              THEN /\ ret' = r.err
                   /\ hist' = Append(hist, Returned(call, r.err))
                   /\ closeLog' = closeLog \o r.closed \o Reverse(defers)
                   /\ open' = (open \cup r.leak) \ Range(defers)
                   /\ defers' = <<>>
                   /\ pc' = "idle"
                   /\ idx' = idx
              ELSE /\ closeLog' = closeLog \o r.closed
                   /\ open' = open \cup r.leak
                   /\ idx' = idx + 1
                   /\ UNCHANGED <<ret, hist, defers, pc>>
    /\ UNCHANGED <<arch, call, files, snap>>

\* The decoders' loop is over (tar: Next returned io.EOF): nil, after the
\* deferred Closes.
DecodeEnd ==
    /\ pc = "decode"
    /\ idx > Len(arch[Abs(call.src)].entries)
    /\ ret' = NoError
    /\ hist' = Append(hist, Returned(call, NoError))
    /\ closeLog' = closeLog \o Reverse(defers)
    /\ open' = open \ Range(defers)
    /\ defers' = <<>>
    /\ pc' = "idle"
    /\ UNCHANGED <<fs, arch, call, files, idx, writes, processed, snap>>

Next ==
    \/ \E a \in Algorithms, src \in EncodeSources : EncodeWalkFails(a, src)
    \/ \E a \in Algorithms, src \in EncodeSources : EncodeBegin(a, src)
    \/ AddEntry
    \/ EncodeEnd
    \/ \E a \in Algorithms, src \in DecodeSources : DecodeOpenFails(a, src)
    \/ \E a \in Algorithms, src \in DecodeSources : DecodeBegin(a, src)
    \/ Extract
    \/ DecodeEnd

Spec == Init /\ [][Next]_vars


\* ---------------------------------------------------------------- properties

\* The entries of the archive the running (or last) call works on.
CallArchive == arch[Abs(IF call.op = "Encode" THEN call.dest ELSE call.src)]

\* Decode is past opening the archive (in its loop, or returned from it).
Decoding == call.op = "Decode" /\ Abs(call.src) \in DOMAIN arch
            /\ arch[Abs(call.src)].fmt = call.alg

\* Node p lies in the tree rooted at node root.
Inside(root, p) ==
    \/ p = root
    \/ HasPrefix(p, IF root = <<Sep>> THEN root ELSE root \o <<Sep>>)

\* The entry name, joined to the destination root and normalized, lies outside
\* the destination root.
Escapes(dest, name) == ~Inside(Abs(dest), Abs(Join(dest, name)))

\* The tree under root, as relative paths with their kinds and contents.
TreeAt(nodes, root) ==
    { [rel |-> SubSeq(q, Len(root) + 1, Len(q)), node |-> nodes[q]] :
        q \in { r \in DOMAIN nodes : Inside(root, r) } }

\* What Decode created or wrote, as a filesystem.
Written == [q \in { w.path : w \in writes } |-> fs[q]]

\* Encode of a directory returned and Decode of the archive it names returned.
RoundTripDone ==
    /\ pc = "idle"
    /\ Len(hist) = 2
    /\ hist[1].op = "Encode" /\ hist[2].op = "Decode"
    /\ hist[2].alg = hist[1].alg
    /\ hist[2].src = hist[1].src \o Suffix(hist[1].alg)
    /\ IsDirAt(snap, Abs(hist[1].src))

\* C1: after Encode(T) and Decode of the archive it produced, both calls have
\* succeeded and Decode has materialized a tree identical to T (same relative
\* paths, same kinds, same contents), for both formats.
C1_RoundTripIdentity ==
    RoundTripDone =>
        /\ hist[1].ret = NoError
        /\ hist[2].ret = NoError
        /\ \E root \in DOMAIN Written :
              TreeAt(Written, root) = TreeAt(snap, Abs(hist[1].src))

\* C2: once Decode (either format) has been handed an entry whose name escapes
\* the destination root, it has returned an error, nothing was created or
\* written for that entry, and nothing it created lies outside the root.
C2_PathEscapeRejected ==
    Decoding =>
        \A i \in processed :
            Escapes(call.dest, CallArchive.entries[i].name) =>
                /\ pc = "idle" /\ ret # NoError
                /\ \A w \in writes : w.idx # i /\ Inside(Abs(call.dest), w.path)

\* C3: everything tar+gzip Decode creates for a header is at the destination
\* root joined with the header's name, never at the name taken by itself.
C3_TarUnderDestination ==
    (Decoding /\ call.alg = "TAR") =>
        \A w \in writes : w.path = Abs(Join(call.dest, w.name))

\* C4: once an entry failing the destination-root check has been met, no later
\* entry is handed to extraction and Decode has returned an error.
C4_EscapeAbortsDecode ==
    Decoding =>
        \A i \in processed :
            Escapes(call.dest, CallArchive.entries[i].name) =>
                /\ \A j \in processed : j <= i
                /\ pc = "idle"
                /\ ret # NoError

\* C5: tar+gzip Decode, handed a header that is neither directory nor regular
\* file, has returned an error, and no later entry was handed to extraction.
C5_UnknownKindRejected ==
    (Decoding /\ call.alg = "TAR") =>
        \A i \in processed :
            CallArchive.entries[i].kind \notin {"dir", "reg"} =>
                /\ pc = "idle"
                /\ ret # NoError
                /\ \A j \in processed : j <= i

\* C5's case: a two-entry tar archive whose first header is of an unsupported
\* kind; Decode has returned an error and the second entry was never reached.
C5_Witness ==
    /\ Decoding /\ call.alg = "TAR"
    /\ Len(CallArchive.entries) = 2
    /\ CallArchive.entries[1].kind = "other"
    /\ processed = {1}
    /\ pc = "idle"
    /\ ret # NoError

\* C6: an Encode (either format) whose directory walk failed has returned an
\* error, never nil.
C6_WalkFailureReturned ==
    \A k \in 1..Len(hist) :
        (hist[k].op = "Encode" /\ hist[k].walkErr) => hist[k].ret # NoError

\* C7: every entry the ZIP writer emitted is named by the path of the walked
\* object relative to the root passed to Encode: not absolute, and leading from
\* the root to that object.
C7_ZipNamesRelative ==
    (call.op = "Encode" /\ call.alg = "ZIP" /\ ~call.walkErr) =>
        \A k \in 1..Len(CallArchive.entries) :
            /\ ~IsAbs(CallArchive.entries[k].name)
            /\ Abs(Join(call.src, CallArchive.entries[k].name)) = Abs(files[k])

\* C8: the list allDirFiles returned holds every object of the tree under the
\* root: every regular file and every directory.
C8_FullCoverageWalk ==
    (call.op = "Encode" /\ ~call.walkErr) =>
        \A q \in DOMAIN snap :
            Inside(Abs(call.src), q) => \E k \in 1..Len(files) : Abs(files[k]) = q

\* The place of handle h in the sequence of Closes.
ClosedAt(h) == CHOOSE k \in 1..Len(closeLog) : closeLog[k] = h

\* C9: when Encode or Decode has returned, by any path, no handle it opened is
\* open, and the tar encoder's layers were closed innermost first.
C9_HandlesReleased ==
    (pc = "idle" /\ call.op # "none") =>
        /\ open = {}
        /\ (call.op = "Encode" /\ call.alg = "TAR" /\ ~call.walkErr) =>
              /\ {"tarWriter", "gzWriter", "tarFile"} \subseteq Range(closeLog)
              /\ ClosedAt("tarWriter") < ClosedAt("gzWriter")
              /\ ClosedAt("gzWriter") < ClosedAt("tarFile")

\* The entry name is relative, has no parent-directory segment, and resolves
\* strictly inside the destination root.
Legitimate(dest, name) ==
    /\ ~IsAbs(name)
    /\ <<".", ".">> \notin Range(Split(name))
    /\ Abs(Join(dest, name)) # Abs(dest)
    /\ Inside(Abs(dest), Abs(Join(dest, name)))

\* C10: ZIP Decode reports no legitimate entry as an illegal file path,
\* whatever destination root the archive's path gives.
C10_ZipAcceptsLegitimate ==
    (Decoding /\ call.alg = "ZIP" /\ pc = "idle" /\ ret = "illegal file path") =>
        ~Legitimate(call.dest, CallArchive.entries[idx].name)

====
